---- MODULE Spec2Model ----
(***************************************************************************)
(* Model of the Wordpress reconciler                                       *)
(* (pkg/controller/wordpress/wordpress_controller.go).                     *)
(*                                                                         *)
(* The object store holds one Wordpress resource (the key of the request), *)
(* the child objects of its pipeline, the workload's status and the legacy *)
(* cron job at the deterministic name.  One reconcile pass is a sequence   *)
(* of steps, one per store call; between any two steps other actors (the   *)
(* user, the workload controller, the garbage collector) may change the    *)
(* store.                                                                  *)
(***************************************************************************)
EXTENDS Integers, Sequences, FiniteSets, TLC

\* ---------------------------------------------------------------- bounds
MaxDomains == 2      \* longest deprecated domain list
MaxReplicas == 1     \* replica counts are 0..MaxReplicas
MaxEnv == 1          \* number of changes made by other actors in a run

\* ------------------------------------------------------------- vocabulary
WpName == "wp"
OtherName == "other"
Domains == {"a", "b"}

RouteSpec(d, p) == [domain |-> d, path |-> p]

\* the domain list of length n that starts with d and alternates
Alternating(d, n) ==
  [i \in 1..n |-> IF i % 2 = 1 THEN d ELSE CHOOSE x \in Domains : x # d]

\* deprecated domain lists a user may have authored
DomainLists == {Alternating(d, n) : d \in Domains, n \in 0..MaxDomains}

\* routing lists a user may author
RouteLists == {<<>>, <<RouteSpec("b", "/blog")>>}

Kinds == {"secret", "deploy", "service", "ingress", "codepvc", "mediapvc"}

\* the user-authored part of a Wordpress resource: a deprecated domain list
\* without volumes, or a routing list with any volume requests
UserSpecs ==
  [routes : {<<>>}, domains : DomainLists, codePVC : {FALSE}, mediaPVC : {FALSE}]
    \cup [routes : RouteLists \ {<<>>}, domains : {<<>>},
          codePVC : BOOLEAN, mediaPVC : BOOLEAN]
    \cup [routes : RouteLists \ {<<>>}, domains : {<<"a">>},
          codePVC : {FALSE}, mediaPVC : {FALSE}]

\* the specifications a user's edit may put in place of the stored one
EditSpecs ==
  { [routes |-> <<>>, domains |-> <<"a", "b">>, codePVC |-> FALSE, mediaPVC |-> FALSE],
    [routes |-> <<RouteSpec("b", "/blog")>>, domains |-> <<"a">>, codePVC |-> TRUE, mediaPVC |-> TRUE] }

\* the child kinds other actors delete or alter
TamperKinds == {"deploy"}


\* ------------------------------------------------------------------ state
VARIABLES
  wp,             \* the stored Wordpress resource of the request's key
  children,       \* the stored child objects, by kind
  deployReplicas, \* Status.Replicas of the stored Deployment
  cron,           \* the stored legacy cron job at the deterministic name
  pc,             \* position of the pass in Reconcile
  lwp,            \* the pass's in-memory copy of the resource (wp)
  err,            \* what r.Get of the resource returned (err)
  updated,        \* first result of maybeMigrate
  needsMigration, \* second result of maybeMigrate
  syncers,        \* the pipeline built by this pass
  idx,            \* position of sync's loop in the pipeline
  obs,            \* Status.Replicas of deploySyncer.Object()
  oldStatus,      \* Replicas of the copy of the status taken before the compare
  runs,           \* the syncers this pass has run, with their results
  log,            \* the store writes this pass has issued
  result,         \* the error Reconcile returns
  emptyAtStart,   \* no child object existed when this pass fetched
  tainted,        \* another actor changed the store during this pass
  prev,           \* the pass before, when nothing disturbed it or the store since
  envLeft,        \* changes other actors may still make
  queued,         \* the dispatcher holds a request for the key
  faults,         \* store calls may fail in this run
  other,          \* the locals of a second pass on the same key, while suspended
  active          \* which of the two passes the pass variables belong to

storeVars == <<wp, children, deployReplicas, cron>>
passVars == <<pc, lwp, err, updated, needsMigration, syncers, idx, obs,
              oldStatus, runs, log, result, emptyAtStart>>
vars == <<wp, children, deployReplicas, cron, pc, lwp, err, updated,
          needsMigration, syncers, idx, obs, oldStatus, runs, log, result,
          emptyAtStart, tainted, prev, envLeft, queued, faults, other, active>>

\* -------------------------------------------------------------- resources
\* a Wordpress object: metadata, Spec and Status.Replicas
MkWp(u, v, s, n) ==
  [exists |-> TRUE, name |-> WpName, uid |-> u, rv |-> v,
   routes |-> s.routes, domains |-> s.domains,
   codePVC |-> s.codePVC, mediaPVC |-> s.mediaPVC,
   defaulted |-> FALSE, replicas |-> n]

EmptySpec == [routes |-> <<>>, domains |-> <<>>, codePVC |-> FALSE, mediaPVC |-> FALSE]

\* the zero object of wordpress.New(&Wordpress{}); also stands for "absent"
NoWp(u, v) == [MkWp(u, v, EmptySpec, 0) EXCEPT !.exists = FALSE]

SpecOf(w) ==
  [routes |-> w.routes, domains |-> w.domains,
   codePVC |-> w.codePVC, mediaPVC |-> w.mediaPVC]

\* metav1.OwnerReference
OwnerRef(k, n, u, c) == [kind |-> k, name |-> n, uid |-> u, controller |-> c]

\* owner reference lists found on a cron job at the deterministic name
CronRefLists ==
  { <<OwnerRef("Wordpress", WpName, 1, TRUE)>>,
    <<OwnerRef("Wordpress", WpName, 2, TRUE)>>,
    <<OwnerRef("Wordpress", OtherName, 2, TRUE)>>,
    <<OwnerRef("Wordpress", OtherName, 2, TRUE), OwnerRef("wordpress", WpName, 1, FALSE)>> }

NoCron == [exists |-> FALSE, refs |-> <<>>]
MkCron(refs) == [exists |-> TRUE, refs |-> refs]

NoChild == [exists |-> FALSE, routes |-> <<>>, drift |-> FALSE]

\* an entry of the pass's write log: the call, its outcome, what the object
\* sent carried (w), and the owner references of a deleted object
LogEntry(op, kind, e, w, refs) ==
  [op |-> op, kind |-> kind, err |-> e, routes |-> w.routes,
   domains |-> w.domains, defaulted |-> w.defaulted, replicas |-> w.replicas,
   refs |-> refs]

NoPrev ==
  [valid |-> FALSE, full |-> FALSE, migrated |-> FALSE, emptyAtStart |-> FALSE,
   afterMigration |-> FALSE]

Err(e, at) == [err |-> e, at |-> at]
Pending == Err("pending", "")

\* the values of a pass's variables
PassLocals ==
  [pc |-> pc, lwp |-> lwp, err |-> err, updated |-> updated,
   needsMigration |-> needsMigration, syncers |-> syncers, idx |-> idx,
   obs |-> obs, oldStatus |-> oldStatus, runs |-> runs, log |-> log,
   result |-> result, emptyAtStart |-> emptyAtStart]

\* the variables of a pass that has not started
IdleLocals ==
  [pc |-> "idle", lwp |-> NoWp(0, 0), err |-> "nil", updated |-> NoWp(0, 0),
   needsMigration |-> FALSE, syncers |-> <<>>, idx |-> 0, obs |-> 0,
   oldStatus |-> 0, runs |-> <<>>, log |-> <<>>, result |-> Pending,
   emptyAtStart |-> FALSE]

\* the store and the controller at start, before the first pass
InitState ==
  /\ \E s \in UserSpecs, n \in {0, MaxReplicas}, e \in BOOLEAN :
       wp = IF e THEN MkWp(1, 1, s, n) ELSE NoWp(1, 1)
  /\ children = [k \in Kinds |-> NoChild]
  /\ deployReplicas = 0
  /\ \E c \in {NoCron, MkCron(<<OwnerRef("Wordpress", WpName, 1, TRUE)>>),
               MkCron(<<OwnerRef("Wordpress", WpName, 2, TRUE)>>)} : cron = c
  /\ pc = "idle"
  /\ lwp = NoWp(0, 0)
  /\ err = "nil"
  /\ oldStatus = 0
  /\ updated = NoWp(0, 0)
  /\ needsMigration = FALSE
  /\ syncers = <<>>
  /\ idx = 0
  /\ obs = 0
  /\ runs = <<>>
  /\ log = <<>>
  /\ result = Pending
  /\ emptyAtStart = FALSE
  /\ tainted = FALSE
  /\ prev = NoPrev
  /\ envLeft = MaxEnv
  /\ queued = TRUE
  /\ other = IdleLocals
  /\ active = 1

Init == InitState /\ faults = TRUE


\* --------------------------------------------------------- pure functions
\* ignoreNotFound passing every error on
ignoreNotFound_Identity(e) == e

ignoreNotFound(e) == IF e = "NotFound" THEN "nil" ELSE e

\* the loop of maybeMigrate over out.Spec.Domains, from index i on
RECURSIVE MigrateLoop(_, _, _)
MigrateLoop(out, i, needs) ==
  IF i > Len(out.domains) THEN [out |-> out, changed |-> needs]
  ELSE MigrateLoop(
         [out EXCEPT !.routes = Append(out.routes, RouteSpec(out.domains[i], "/"))],
         i + 1, TRUE)

\* maybeMigrate without the test of len(out.Spec.Routes)
maybeMigrate_IgnoreRoutes(w) ==
  LET looped == MigrateLoop(w, 1, FALSE)
  IN [out |-> [looped.out EXCEPT !.domains = <<>>], changed |-> looped.changed]

\* maybeMigrate without the clearing of out.Spec.Domains
maybeMigrate_KeepDomains(w) ==
  IF Len(w.routes) = 0
  THEN MigrateLoop(w, 1, FALSE)
  ELSE [out |-> w, changed |-> FALSE]

maybeMigrate(w) ==
  LET looped == IF Len(w.routes) = 0
                THEN MigrateLoop(w, 1, FALSE)
                ELSE [out |-> w, changed |-> FALSE]
  IN [out |-> [looped.out EXCEPT !.domains = <<>>], changed |-> looped.changed]

isOwnedBy(refs, owner) ==
  \E i \in 1..Len(refs) :
    /\ refs[i].kind = "Wordpress" \/ refs[i].kind = "wordpress"
    /\ refs[i].name = owner.name

\* r.scheme.Default and wp.SetDefaults: fill unset optional fields in memory
SetDefaults(w) == [w EXCEPT !.defaulted = TRUE]

\* the syncers slice with the media claim decided by the code volume's request
Pipeline_MediaForCode(w) ==
  <<"secret", "deploy", "service", "ingress">>
    \o (IF w.codePVC THEN <<"codepvc">> ELSE <<>>)
    \o (IF w.codePVC THEN <<"mediapvc">> ELSE <<>>)

\* the syncers slice with the storage claims ahead of the fixed syncers
Pipeline_ClaimsFirst(w) ==
  (IF w.codePVC THEN <<"codepvc">> ELSE <<>>)
    \o (IF w.mediaPVC THEN <<"mediapvc">> ELSE <<>>)
    \o <<"secret", "deploy", "service", "ingress">>

\* the syncers slice with the workload ahead of the secret it consumes
Pipeline_Reordered(w) ==
  <<"deploy", "secret", "service", "ingress">>
    \o (IF w.codePVC THEN <<"codepvc">> ELSE <<>>)
    \o (IF w.mediaPVC THEN <<"mediapvc">> ELSE <<>>)

\* the syncers slice built by Reconcile
Pipeline(w) ==
  <<"secret", "deploy", "service", "ingress">>
    \o (IF w.codePVC THEN <<"codepvc">> ELSE <<>>)
    \o (IF w.mediaPVC THEN <<"mediapvc">> ELSE <<>>)

\* the child object a syncer's builder computes from the specification
Desired(k, w) ==
  [exists |-> TRUE, routes |-> IF k = "ingress" THEN w.routes ELSE <<>>,
   drift |-> FALSE]

\* ----------------------------------------------------------- object store
\* the outcomes a store call may draw: fail is "the call fails"
StoreFails == IF faults THEN BOOLEAN ELSE {FALSE}

\* where a syncer may fail
SyncFails == IF faults THEN {"none", "get", "write"} ELSE {"none"}

\* the child kinds add() lists in subresources without the Deployment
WatchedKinds_NoDeploy == {"secret", "service", "ingress", "codepvc", "mediapvc"}

\* the child kinds add() watches with EnqueueRequestForOwner
WatchedKinds == {"secret", "deploy", "service", "ingress", "codepvc", "mediapvc"}

\* watch handlers that drop every notification
Enqueue_Never(changed) == queued' = queued

\* the watch handlers put a request on the queue when a watched object changed
Enqueue(changed) == queued' = (queued \/ changed)

\* outcome of an Update of the Wordpress resource (or of its status) from obj
UpdateErr(obj, fail) ==
  IF fail THEN "Unavailable"
  ELSE IF ~wp.exists THEN "NotFound"
  ELSE IF wp.rv # obj.rv \/ wp.uid # obj.uid THEN "Conflict"
  ELSE "nil"

\* what the next pass remembers of this one
Summary ==
  [valid |-> TRUE, full |-> result.at \in {"cronGet", "cronDelete"},
   migrated |-> needsMigration, emptyAtStart |-> emptyAtStart,
   afterMigration |-> prev.valid /\ prev.migrated]

\* ------------------------------------------------------------ Reconcile
\* r.Get of the Wordpress instance
Fetch ==
  /\ pc = "idle"
  /\ queued
  /\ queued' = FALSE
  /\ \E fail \in StoreFails :
       /\ err' = IF fail THEN "Unavailable"
                 ELSE IF ~wp.exists THEN "NotFound" ELSE "nil"
       /\ IF err' = "nil"
          THEN /\ lwp' = wp
               /\ pc' = "fetched"
               /\ result' = Pending
          ELSE /\ lwp' = NoWp(0, 0)
               /\ pc' = "done"
               /\ result' = Err(ignoreNotFound(err'), "get")
  /\ emptyAtStart' = \A k \in Kinds : ~children[k].exists
  /\ UNCHANGED <<storeVars, updated, needsMigration, syncers, idx, obs,
                 oldStatus, runs, log, tainted, prev, envLeft, faults, other, active>>

\* maybeMigrate, then either the migration branch or defaults and pipeline
Migrate ==
  /\ pc = "fetched"
  /\ LET m == maybeMigrate(lwp)
     IN /\ updated' = m.out
        /\ needsMigration' = m.changed
        /\ \/ /\ m.changed
              /\ pc' = "update"
              /\ UNCHANGED <<lwp, syncers, idx>>
           \/ /\ ~m.changed
              /\ lwp' = SetDefaults(lwp)
              /\ syncers' = Pipeline(lwp')
              /\ idx' = 1
              /\ pc' = "sync"
  /\ UNCHANGED <<storeVars, err, obs, oldStatus, runs, log, result,
                 emptyAtStart, tainted, prev, envLeft, queued, faults, other, active>>

\* the migration branch retrying in place on a conflict: it takes the stored
\* revision and sends the stale object again
MigrateUpdate_Retry ==
  /\ pc = "update"
  /\ \E fail \in StoreFails :
       LET e == UpdateErr(updated, fail)
           again == [updated EXCEPT !.rv = wp.rv, !.uid = wp.uid]
       IN IF e = "Conflict"
          THEN /\ wp' = [again EXCEPT !.rv = wp.rv + 1]
               /\ log' = log \o <<LogEntry("update", "wp", e, updated, <<>>),
                                   LogEntry("update", "wp", "nil", again, <<>>)>>
               /\ result' = Err("nil", "update")
          ELSE /\ wp' = IF e = "nil" THEN [updated EXCEPT !.rv = wp.rv + 1] ELSE wp
               /\ log' = Append(log, LogEntry("update", "wp", e, updated, <<>>))
               /\ result' = Err(e, "update")
  /\ pc' = "done"
  /\ Enqueue(wp' # wp)
  /\ UNCHANGED <<children, deployReplicas, cron, lwp, err, updated,
                 needsMigration, syncers, idx, obs, oldStatus, runs,
                 emptyAtStart, tainted, prev, envLeft, faults, other, active>>

\* the migration branch without its return: the pass goes on to the pipeline
MigrateUpdate_Continue ==
  /\ pc = "update"
  /\ \E fail \in StoreFails :
       LET e == UpdateErr(updated, fail)
       IN /\ wp' = IF e = "nil" THEN [updated EXCEPT !.rv = wp.rv + 1] ELSE wp
          /\ log' = Append(log, LogEntry("update", "wp", e, updated, <<>>))
  /\ lwp' = SetDefaults(lwp)
  /\ syncers' = Pipeline(lwp')
  /\ idx' = 1
  /\ pc' = "sync"
  /\ Enqueue(wp' # wp)
  /\ UNCHANGED <<children, deployReplicas, cron, err, updated, needsMigration,
                 obs, oldStatus, runs, result, emptyAtStart, tainted, prev,
                 envLeft, faults, other, active>>

\* r.Update(ctx, updated) of the migration branch, and its return
MigrateUpdate ==
  /\ pc = "update"
  /\ \E fail \in StoreFails :
       LET e == UpdateErr(updated, fail)
       IN /\ wp' = IF e = "nil" THEN [updated EXCEPT !.rv = wp.rv + 1] ELSE wp
          /\ log' = Append(log, LogEntry("update", "wp", e, updated, <<>>))
          /\ result' = Err(e, "update")
  /\ pc' = "done"
  /\ Enqueue(wp' # wp)
  /\ UNCHANGED <<children, deployReplicas, cron, lwp, err, updated,
                 needsMigration, syncers, idx, obs, oldStatus, runs,
                 emptyAtStart, tainted, prev, envLeft, faults, other, active>>


\* syncer.Sync of the syncer of kind k: fetch the current object, invoke the
\* builder, create or update when the result differs.  f is where the store
\* fails: "get" before the builder is invoked, "write" at the create or update.
SyncerRun(k, f) ==
  LET cur == children[k]
      des == Desired(k, lwp)
      op == IF cur.exists THEN "update" ELSE "create"
      entry(e) == LogEntry(op, k, e, lwp, <<>>)
  IN IF f = "get"
     THEN [kind |-> k, built |-> FALSE, res |-> "failed", err |-> "Unavailable",
           child |-> cur, writes |-> <<>>]
     ELSE IF cur = des
     THEN [kind |-> k, built |-> TRUE, res |-> "unchanged", err |-> "nil",
           child |-> cur, writes |-> <<>>]
     ELSE IF f = "write"
     THEN [kind |-> k, built |-> TRUE, res |-> "failed", err |-> "Unavailable",
           child |-> cur, writes |-> <<entry("Unavailable")>>]
     ELSE [kind |-> k, built |-> TRUE,
           res |-> IF cur.exists THEN "updated" ELSE "created", err |-> "nil",
           child |-> des, writes |-> <<entry("nil")>>]

RunOf(o) == [kind |-> o.kind, built |-> o.built, res |-> o.res, err |-> o.err]

\* Reconcile going on to the status block although r.sync returned an error
SyncStep_IgnoreErr ==
  /\ pc = "sync"
  /\ idx <= Len(syncers)
  /\ \E f \in SyncFails :
       LET k == syncers[idx]
           o == SyncerRun(k, f)
       IN /\ f = "write" => children[k] # Desired(k, lwp)
          /\ children' = [children EXCEPT ![k] = o.child]
          /\ runs' = Append(runs, RunOf(o))
          /\ log' = log \o o.writes
          /\ obs' = IF k = "deploy" /\ o.err = "nil" THEN deployReplicas ELSE obs
          /\ result' = result
          /\ IF o.err # "nil"
             THEN /\ pc' = "status"
                  /\ idx' = idx
             ELSE /\ idx' = idx + 1
                  /\ pc' = IF idx + 1 > Len(syncers) THEN "status" ELSE "sync"
  /\ Enqueue(\E k \in WatchedKinds : children'[k] # children[k])
  /\ UNCHANGED <<wp, deployReplicas, cron, lwp, err, updated, needsMigration,
                 syncers, oldStatus, emptyAtStart, tainted, prev, envLeft,
                 faults, other, active>>

\* the loop of r.sync going on to the next syncer after an error
SyncStep_NoFailFast ==
  /\ pc = "sync"
  /\ idx <= Len(syncers)
  /\ \E f \in SyncFails :
       LET k == syncers[idx]
           o == SyncerRun(k, f)
       IN /\ f = "write" => children[k] # Desired(k, lwp)
          /\ children' = [children EXCEPT ![k] = o.child]
          /\ runs' = Append(runs, RunOf(o))
          /\ log' = log \o o.writes
          /\ obs' = IF k = "deploy" /\ o.err = "nil" THEN deployReplicas ELSE obs
          /\ idx' = idx + 1
          /\ IF idx + 1 > Len(syncers) /\ (o.err # "nil" \/ result # Pending)
             THEN /\ result' = IF o.err # "nil" THEN Err(o.err, k) ELSE result
                  /\ pc' = "done"
             ELSE /\ result' = IF o.err # "nil" THEN Err(o.err, k) ELSE result
                  /\ pc' = IF idx + 1 > Len(syncers) THEN "status" ELSE "sync"
  /\ Enqueue(\E k \in WatchedKinds : children'[k] # children[k])
  /\ UNCHANGED <<wp, deployReplicas, cron, lwp, err, updated, needsMigration,
                 syncers, oldStatus, emptyAtStart, tainted, prev, envLeft,
                 faults, other, active>>

\* one iteration of the loop of r.sync, and Reconcile's return on its error
SyncStep ==
  /\ pc = "sync"
  /\ idx <= Len(syncers)
  /\ \E f \in SyncFails :
       LET k == syncers[idx]
           o == SyncerRun(k, f)
       IN /\ f = "write" => children[k] # Desired(k, lwp)
          /\ children' = [children EXCEPT ![k] = o.child]
          /\ runs' = Append(runs, RunOf(o))
          /\ log' = log \o o.writes
          /\ obs' = IF k = "deploy" /\ o.err = "nil" THEN deployReplicas ELSE obs
          /\ IF o.err # "nil"
             THEN /\ result' = Err(o.err, k)
                  /\ pc' = "done"
                  /\ idx' = idx
             ELSE /\ result' = result
                  /\ idx' = idx + 1
                  /\ pc' = IF idx + 1 > Len(syncers) THEN "status" ELSE "sync"
  /\ Enqueue(\E k \in WatchedKinds : children'[k] # children[k])
  /\ UNCHANGED <<wp, deployReplicas, cron, lwp, err, updated, needsMigration,
                 syncers, oldStatus, emptyAtStart, tainted, prev, envLeft,
                 faults, other, active>>

\* the status block calling r.Update instead of r.Status().Update: the whole
\* in-memory object, defaults included, is persisted
StatusStep_WholeUpdate ==
  /\ pc = "status"
  /\ oldStatus' = lwp.replicas
  /\ LET new == [lwp EXCEPT !.replicas = obs]
     IN IF oldStatus' # new.replicas
        THEN \E fail \in StoreFails :
               LET errUp == UpdateErr(new, fail)
               IN /\ log' = Append(log, LogEntry("statusUpdate", "wp", errUp, new, <<>>))
                  /\ IF errUp # "nil"
                     THEN /\ result' = Err(errUp, "status")
                          /\ pc' = "done"
                          /\ wp' = wp
                          /\ lwp' = new
                     ELSE /\ result' = result
                          /\ pc' = "cronGet"
                          /\ wp' = [new EXCEPT !.rv = wp.rv + 1]
                          /\ lwp' = [new EXCEPT !.rv = wp.rv + 1]
        ELSE /\ lwp' = new
             /\ pc' = "cronGet"
             /\ UNCHANGED <<wp, log, result>>
  /\ Enqueue(wp' # wp)
  /\ UNCHANGED <<children, deployReplicas, cron, err, updated, needsMigration,
                 syncers, idx, obs, runs, emptyAtStart, tainted, prev, envLeft,
                 faults, other, active>>

\* the status block sending the update a second time when the first fails
StatusStep_Retry ==
  /\ pc = "status"
  /\ oldStatus' = lwp.replicas
  /\ LET new == [lwp EXCEPT !.replicas = obs]
     IN IF oldStatus' # new.replicas
        THEN \E fail \in StoreFails :
               LET errUp == UpdateErr(new, fail)
                   entry == LogEntry("statusUpdate", "wp", errUp, new, <<>>)
               IN /\ log' = IF errUp # "nil" THEN log \o <<entry, entry>>
                            ELSE Append(log, entry)
                  /\ IF errUp # "nil"
                     THEN /\ result' = Err(errUp, "status")
                          /\ pc' = "done"
                          /\ wp' = wp
                          /\ lwp' = new
                     ELSE /\ result' = result
                          /\ pc' = "cronGet"
                          /\ wp' = [wp EXCEPT !.replicas = obs, !.rv = wp.rv + 1]
                          /\ lwp' = [new EXCEPT !.rv = wp.rv + 1]
        ELSE /\ lwp' = new
             /\ pc' = "cronGet"
             /\ UNCHANGED <<wp, log, result>>
  /\ Enqueue(wp' # wp)
  /\ UNCHANGED <<children, deployReplicas, cron, err, updated, needsMigration,
                 syncers, idx, obs, runs, emptyAtStart, tainted, prev, envLeft,
                 faults, other, active>>

\* the status block without the compare: it updates the status on every pass
StatusStep_Always ==
  /\ pc = "status"
  /\ oldStatus' = lwp.replicas
  /\ LET new == [lwp EXCEPT !.replicas = obs]
     IN \E fail \in StoreFails :
          LET errUp == UpdateErr(new, fail)
          IN /\ log' = Append(log, LogEntry("statusUpdate", "wp", errUp, new, <<>>))
             /\ IF errUp # "nil"
                THEN /\ result' = Err(errUp, "status")
                     /\ pc' = "done"
                     /\ wp' = wp
                     /\ lwp' = new
                ELSE /\ result' = result
                     /\ pc' = "cronGet"
                     /\ wp' = [wp EXCEPT !.replicas = obs, !.rv = wp.rv + 1]
                     /\ lwp' = [new EXCEPT !.rv = wp.rv + 1]
  /\ Enqueue(wp' # wp)
  /\ UNCHANGED <<children, deployReplicas, cron, err, updated, needsMigration,
                 syncers, idx, obs, runs, emptyAtStart, tainted, prev, envLeft,
                 faults, other, active>>

\* the status block sending the object before the observed count is set
StatusStep_Stale ==
  /\ pc = "status"
  /\ oldStatus' = lwp.replicas
  /\ LET new == [lwp EXCEPT !.replicas = obs]
     IN IF oldStatus' # new.replicas
        THEN \E fail \in StoreFails :
               LET errUp == UpdateErr(lwp, fail)
               IN /\ log' = Append(log, LogEntry("statusUpdate", "wp", errUp, lwp, <<>>))
                  /\ IF errUp # "nil"
                     THEN /\ result' = Err(errUp, "status")
                          /\ pc' = "done"
                          /\ wp' = wp
                          /\ lwp' = new
                     ELSE /\ result' = result
                          /\ pc' = "cronGet"
                          /\ wp' = [wp EXCEPT !.replicas = lwp.replicas, !.rv = wp.rv + 1]
                          /\ lwp' = [new EXCEPT !.rv = wp.rv + 1]
        ELSE /\ lwp' = new
             /\ pc' = "cronGet"
             /\ UNCHANGED <<wp, log, result>>
  /\ Enqueue(wp' # wp)
  /\ UNCHANGED <<children, deployReplicas, cron, err, updated, needsMigration,
                 syncers, idx, obs, runs, emptyAtStart, tainted, prev, envLeft,
                 faults, other, active>>

\* the status block of Reconcile: compare, then r.Status().Update
StatusStep ==
  /\ pc = "status"
  /\ oldStatus' = lwp.replicas
  /\ LET new == [lwp EXCEPT !.replicas = obs]
     IN IF oldStatus' # new.replicas
        THEN \E fail \in StoreFails :
               LET errUp == UpdateErr(new, fail)
               IN /\ log' = Append(log, LogEntry("statusUpdate", "wp", errUp, new, <<>>))
                  /\ IF errUp # "nil"
                     THEN /\ result' = Err(errUp, "status")
                          /\ pc' = "done"
                          /\ wp' = wp
                          /\ lwp' = new
                     ELSE /\ result' = result
                          /\ pc' = "cronGet"
                          /\ wp' = [wp EXCEPT !.replicas = obs, !.rv = wp.rv + 1]
                          /\ lwp' = [new EXCEPT !.rv = wp.rv + 1]
        ELSE /\ lwp' = new
             /\ pc' = "cronGet"
             /\ UNCHANGED <<wp, log, result>>
  /\ Enqueue(wp' # wp)
  /\ UNCHANGED <<children, deployReplicas, cron, err, updated, needsMigration,
                 syncers, idx, obs, runs, emptyAtStart, tainted, prev, envLeft,
                 faults, other, active>>

\* cleanupCronJob up to the ownership check: r.Get of the cron job, isOwnedBy
CleanupGet ==
  /\ pc = "cronGet"
  /\ \E fail \in StoreFails :
       LET e == IF fail THEN "Unavailable"
                ELSE IF ~cron.exists THEN "NotFound" ELSE "nil"
       IN IF e # "nil"
          THEN /\ result' = Err(ignoreNotFound(e), "cronGet")
               /\ pc' = "done"
          ELSE IF ~isOwnedBy(cron.refs, lwp)
          THEN /\ result' = Err("nil", "cronGet")
               /\ pc' = "done"
          ELSE /\ result' = result
               /\ pc' = "cronDelete"
  /\ UNCHANGED <<storeVars, lwp, err, updated, needsMigration, syncers, idx,
                 obs, oldStatus, runs, log, emptyAtStart, tainted, prev, envLeft,
                 queued, faults, other, active>>

\* r.Delete(ctx, cronJob): deletes by key whatever the store holds there
CleanupDelete ==
  /\ pc = "cronDelete"
  /\ \E fail \in StoreFails :
       LET e == IF fail THEN "Unavailable"
                ELSE IF ~cron.exists THEN "NotFound" ELSE "nil"
       IN /\ cron' = IF e = "nil" THEN NoCron ELSE cron
          /\ log' = Append(log, LogEntry("delete", "cron", e, lwp, cron.refs))
          /\ result' = Err(e, "cronDelete")
  /\ pc' = "done"
  /\ UNCHANGED <<wp, children, deployReplicas, lwp, err, updated,
                 needsMigration, syncers, idx, obs, oldStatus, runs,
                 emptyAtStart, tainted, prev, envLeft, queued, faults, other, active>>

\* Reconcile has returned; the dispatcher may invoke the next pass
Return ==
  /\ pc = "done"
  /\ pc' = "idle"
  /\ prev' = IF tainted \/ result.err # "nil" THEN NoPrev ELSE Summary
  /\ lwp' = NoWp(0, 0)
  /\ err' = "nil"
  /\ oldStatus' = 0
  /\ updated' = NoWp(0, 0)
  /\ needsMigration' = FALSE
  /\ syncers' = <<>>
  /\ idx' = 0
  /\ obs' = 0
  /\ runs' = <<>>
  /\ log' = <<>>
  /\ result' = Pending
  /\ emptyAtStart' = FALSE
  /\ tainted' = FALSE
  /\ Enqueue(result.err # "nil")
  /\ UNCHANGED <<storeVars, envLeft, faults, other, active>>

\* ------------------------------------------------------------ other actors
Disturb ==
  /\ envLeft > 0
  /\ envLeft' = envLeft - 1
  /\ tainted' = (pc # "idle")
  /\ prev' = NoPrev
  /\ UNCHANGED <<passVars, faults, other, active>>

\* the user edits the specification
UserEdit ==
  /\ wp.exists
  /\ \E s \in EditSpecs :
       /\ s # SpecOf(wp)
       /\ wp' = MkWp(wp.uid, wp.rv + 1, s, wp.replicas)
  /\ Disturb
  /\ Enqueue(TRUE)
  /\ UNCHANGED <<children, deployReplicas, cron>>

\* the user deletes the resource; the store cascades to what it owns
UserDelete ==
  /\ wp.exists
  /\ wp' = NoWp(wp.uid, wp.rv)
  /\ children' = [k \in Kinds |-> NoChild]
  /\ deployReplicas' = 0
  /\ cron' = IF \E i \in 1..Len(cron.refs) : cron.refs[i].uid = wp.uid
             THEN NoCron ELSE cron
  /\ Disturb
  /\ Enqueue(TRUE)

\* the user creates the resource (anew)
UserCreate ==
  /\ ~wp.exists
  /\ \E s \in EditSpecs : wp' = MkWp(wp.uid + 1, wp.rv + 1, s, 0)
  /\ Disturb
  /\ Enqueue(TRUE)
  /\ UNCHANGED <<children, deployReplicas, cron>>

\* the workload controller reports another replica count
DeployStatus ==
  /\ children["deploy"].exists
  /\ \E n \in 0..MaxReplicas :
       /\ n # deployReplicas
       /\ deployReplicas' = n
  /\ Disturb
  /\ Enqueue("deploy" \in WatchedKinds)
  /\ UNCHANGED <<wp, children, cron>>

\* another actor deletes or alters a child object
ChildTamper ==
  /\ \E k \in TamperKinds :
       /\ children[k].exists
       /\ \/ children' = [children EXCEPT ![k] = NoChild]
          \/ /\ ~children[k].drift
             /\ children' = [children EXCEPT ![k].drift = TRUE]
       /\ deployReplicas' = IF k = "deploy" /\ ~children'[k].exists THEN 0
                            ELSE deployReplicas
  /\ Disturb
  /\ Enqueue(\E k \in WatchedKinds : children'[k] # children[k])
  /\ UNCHANGED <<wp, cron>>

\* another actor creates, replaces or deletes the cron job at that name
CronChange ==
  /\ \E c \in {NoCron} \cup {MkCron(r) : r \in CronRefLists} :
       /\ c # cron
       /\ cron' = c
  /\ Disturb
  /\ UNCHANGED <<wp, children, deployReplicas, queued>>

\* the dispatcher's periodic resync puts the key on the queue unprompted
Resync ==
  /\ pc = "idle"
  /\ ~queued
  /\ queued' = TRUE
  /\ UNCHANGED <<storeVars, passVars, tainted, prev, envLeft, faults, other, active>>

Next ==
  \/ Fetch
  \/ Migrate
  \/ MigrateUpdate
  \/ SyncStep
  \/ StatusStep
  \/ CleanupGet
  \/ CleanupDelete
  \/ Return
  \/ UserEdit
  \/ UserDelete
  \/ UserCreate
  \/ DeployStatus
  \/ ChildTamper
  \/ CronChange
  \/ Resync

Spec == Init /\ [][Next]_vars

\* the steps of the reconciler and of the dispatcher that invokes it
PassNext ==
  \/ Fetch
  \/ Migrate
  \/ MigrateUpdate
  \/ SyncStep
  \/ StatusStep
  \/ CleanupGet
  \/ CleanupDelete
  \/ Return

\* the scheduler suspends the running pass and resumes the other one
Switch ==
  /\ pc # "idle" \/ other.pc # "idle"
  /\ other' = PassLocals
  /\ pc' = other.pc
  /\ lwp' = other.lwp
  /\ err' = other.err
  /\ updated' = other.updated
  /\ needsMigration' = other.needsMigration
  /\ syncers' = other.syncers
  /\ idx' = other.idx
  /\ obs' = other.obs
  /\ oldStatus' = other.oldStatus
  /\ runs' = other.runs
  /\ log' = other.log
  /\ result' = other.result
  /\ emptyAtStart' = other.emptyAtStart
  /\ active' = 3 - active
  /\ tainted' = TRUE
  /\ prev' = NoPrev
  /\ UNCHANGED <<storeVars, envLeft, queued, faults>>

\* the starts of the overlap runs: an existing resource that needs migration,
\* or has a routing list with or without claims; no store call fails
OverlapInit ==
  /\ InitState
  /\ faults = FALSE
  /\ wp.exists
  /\ \/ wp.routes = <<>> /\ Len(wp.domains) = MaxDomains /\ wp.domains[1] = "a"
     \/ wp.routes # <<>> /\ wp.codePVC = wp.mediaPVC /\ wp.domains = <<>>
  /\ cron \in {NoCron, MkCron(<<OwnerRef("Wordpress", WpName, 1, TRUE)>>)}

\* two passes on the same key, no other actor
OverlapNext ==
  \/ PassNext
  \/ Resync
  \/ Switch

\* both passes are scheduled fairly: a suspended pass is resumed, and each
\* pass takes its steps while it runs
OverlapSpec ==
  /\ OverlapInit
  /\ [][OverlapNext]_vars
  /\ WF_vars(Switch /\ other.pc # "idle")
  /\ SF_vars(PassNext /\ active = 1)
  /\ SF_vars(PassNext /\ active = 2)

\* a run in which no store call fails
LiveInit == InitState /\ faults = FALSE

\* fair dispatch: a queued request is served and a started pass runs to its end
LiveSpec == LiveInit /\ [][Next]_vars /\ WF_vars(PassNext)


\* ------------------------------------------------------------- properties
Done == pc = "done"

\* the entries of the pass's log for one call
Calls(op) == SelectSeq(log, LAMBDA e : e.op = op)

\* the routing list that holds one root-path entry per domain of w, in order
RoutesOfDomains(w) == [i \in 1..Len(w.domains) |-> RouteSpec(w.domains[i], "/")]

\* the kinds of a sequence of log entries or syncer runs
KindsOf(seq) == [i \in 1..Len(seq) |-> seq[i].kind]

\* C1: a pass whose maybeMigrate reports that migration is needed issues
\* exactly one whole-resource Update carrying the migrated specification
\* and ends: it runs no syncer, writes no child, issues no status update and
\* no delete, and returns success iff that Update succeeded.
C1_MigrationEndsPass ==
  needsMigration =>
    /\ pc \in {"update", "done"}
    /\ runs = <<>>
    /\ pc = "update" => log = <<>>
    /\ Done =>
         /\ Len(log) = 1
         /\ log[1].op = "update" /\ log[1].kind = "wp"
         /\ log[1].routes = RoutesOfDomains(lwp)
         /\ log[1].domains = <<>>
         /\ (result.err = "nil") <=> (log[1].err = "nil")

C1_Witness ==
  /\ Done /\ needsMigration /\ result.err = "nil"
  /\ Len(log) = 1 /\ Len(log[1].routes) = 2

\* C2: on a specification with an empty routing list and a non-empty
\* deprecated domain list maybeMigrate returns changed = true and an output
\* with one routing entry per domain, in order, each with path "/" and the
\* domain as hostname, and an empty deprecated list; maybeMigrate of that
\* output returns changed = false and the same specification.
C2_MigrationShape ==
  (pc \in {"update", "sync", "done"} /\ lwp.exists
     /\ Len(lwp.routes) = 0 /\ Len(lwp.domains) > 0) =>
    /\ needsMigration
    /\ Len(updated.routes) = Len(lwp.domains)
    /\ \A i \in 1..Len(lwp.domains) :
         updated.routes[i] = [domain |-> lwp.domains[i], path |-> "/"]
    /\ updated.domains = <<>>
    /\ maybeMigrate(updated).changed = FALSE
    /\ maybeMigrate(updated).out = updated

C2_Witness ==
  /\ pc = "update" /\ needsMigration
  /\ lwp.domains = <<"a", "b">>
  /\ updated.routes = <<RouteSpec("a", "/"), RouteSpec("b", "/")>>

\* an owner reference that names a resource other than w; a reference of the
\* kind and name of w is taken to name w, whatever its uid
NamesOther(ref, w) ==
  \/ ref.kind \notin {"Wordpress", "wordpress"}
  \/ ref.name # w.name

\* C3: cleanupCronJob never deletes a legacy cron job whose owner references
\* all name a resource other than the one being reconciled, even when the
\* cron job has the deterministic name computed for that resource.
C3_OwnershipSafety ==
  \A i \in 1..Len(log) :
    (log[i].op = "delete" /\ log[i].err = "nil") =>
      ~(\A j \in 1..Len(log[i].refs) : NamesOther(log[i].refs[j], lwp))

\* C4: when the k-th syncer fails no later syncer is run (no builder
\* invoked, no write), the pass returns the k-th syncer's error, and what
\* the syncers before k committed stays in the store.
C4_FailFast ==
  \A k \in 1..Len(runs) :
    runs[k].err # "nil" =>
      /\ k = Len(runs)
      /\ runs[k].kind = syncers[k]
      /\ Done /\ result = Err(runs[k].err, syncers[k])
      /\ \A i \in 1..Len(log) : log[i].kind \in {syncers[j] : j \in 1..k}
      /\ \A i \in 1..Len(log) : log[i].op \in {"create", "update"}
      /\ tainted \/ \A i \in 1..(k - 1) :
                      runs[i].res \in {"created", "updated"} =>
                        children[syncers[i]] = Desired(syncers[i], lwp)

C4_Witness ==
  /\ Done /\ Len(runs) = 2 /\ Len(syncers) >= 3
  /\ runs[1].res = "created" /\ runs[2].err # "nil"
  /\ children["secret"].exists /\ ~children["service"].exists

\* the pass has gone through the status block
StatusRan ==
  \/ pc \in {"cronGet", "cronDelete"}
  \/ Done /\ result.at \in {"status", "cronGet", "cronDelete"}

\* C5: after a successful pipeline, no status update is issued when the
\* replica count observed on the workload equals the one in the fetched
\* status; otherwise exactly one is issued, carrying the observed count.
C5_StatusSuppression ==
  StatusRan =>
    IF obs = oldStatus
    THEN Calls("statusUpdate") = <<>>
    ELSE /\ Len(Calls("statusUpdate")) = 1
         /\ Calls("statusUpdate")[1].replicas = obs

C5_Witness ==
  /\ StatusRan /\ obs # oldStatus
  /\ Len(Calls("statusUpdate")) = 1 /\ Calls("statusUpdate")[1].err = "nil"
  /\ wp.replicas = obs


\* the pass went through the pipeline, the status block and the cleanup
FullPass == Done /\ result.err = "nil" /\ result.at \in {"cronGet", "cronDelete"}

\* C6: a pass that follows a successful full pass, with no change by any
\* other actor from that pass's fetch on, issues no child write (every syncer
\* result is unchanged), no resource or status update and no delete.
C6_Idempotence ==
  (Done /\ prev.valid /\ prev.full /\ ~tainted) =>
    /\ log = <<>>
    /\ \A i \in 1..Len(runs) : runs[i].res \in {"unchanged", "failed"}
    /\ result.err = "nil" =>
         /\ FullPass
         /\ Len(runs) = Len(syncers) /\ Len(syncers) >= 4
         /\ \A i \in 1..Len(runs) : runs[i].res = "unchanged"

C6_Witness ==
  /\ FullPass /\ prev.valid /\ prev.full /\ ~tainted
  /\ Len(runs) = 6 /\ log = <<>>
  /\ wp.replicas = deployReplicas

FixedSyncers == <<"secret", "deploy", "service", "ingress">>

\* C7: from no children and a resource with a routing list and no volume
\* claim requested, a successful pass creates exactly secret, workload,
\* service and ingress, in that order, and runs no storage-claim syncer; the
\* pass after it issues no write; and when the resource starts with domains
\* and no routing list, a migration-only pass that persists one routing
\* entry per domain comes first and the pass after it is that full pass.
C7_EndToEnd ==
  /\ (FullPass /\ emptyAtStart /\ Len(lwp.routes) > 0
        /\ ~lwp.codePVC /\ ~lwp.mediaPVC) =>
       /\ KindsOf(Calls("create")) = FixedSyncers
       /\ KindsOf(runs) = FixedSyncers
       /\ \A i \in 1..Len(log) : log[i].kind \in Kinds => log[i].op = "create"
  /\ (Done /\ ~tainted /\ prev.valid /\ prev.full /\ prev.emptyAtStart) =>
       log = <<>>
  /\ (Done /\ result.err = "nil" /\ lwp.exists
        /\ Len(lwp.routes) = 0 /\ Len(lwp.domains) > 0) =>
       /\ result.at = "update"
       /\ KindsOf(log) = <<"wp">>
       /\ log[1].routes = RoutesOfDomains(lwp) /\ log[1].domains = <<>>
       /\ tainted \/ (wp.routes = RoutesOfDomains(lwp) /\ wp.domains = <<>>)
  /\ (Done /\ ~tainted /\ prev.valid /\ prev.migrated /\ result.err = "nil") =>
       /\ FullPass
       /\ Len(lwp.routes) > 0 /\ lwp.domains = <<>>

C7_Witness ==
  /\ FullPass /\ ~tainted /\ log = <<>>
  /\ prev.valid /\ prev.full /\ prev.emptyAtStart /\ prev.afterMigration
  /\ Len(wp.routes) = 2
  /\ \A k \in Kinds : children[k].exists <=> k \in {"secret", "deploy", "service", "ingress"}

\* C8: when the fetch of the resource reports it absent the pass ends with
\* success and has issued no write or delete; when the fetch fails with any
\* other error the pass returns that error, also without a write.
C8_FetchErrors ==
  (Done /\ err # "nil") =>
    /\ log = <<>> /\ runs = <<>>
    /\ result.at = "get"
    /\ err = "NotFound" => result.err = "nil"
    /\ err # "NotFound" => result.err = err

C8_Witness == Done /\ err = "NotFound" /\ result = Err("nil", "get") /\ ~wp.exists

\* C9: when a syncer fails the pass returns that error and issues neither a
\* status update nor a delete of the legacy object, and the stored status is
\* the one the pass fetched.
C9_SyncFailure ==
  \A k \in 1..Len(runs) :
    runs[k].err # "nil" =>
      /\ Done /\ result.err = runs[k].err
      /\ Calls("statusUpdate") = <<>>
      /\ Calls("delete") = <<>>
      /\ tainted \/ wp.replicas = lwp.replicas

C9_Witness ==
  /\ Done /\ Len(runs) = 3 /\ runs[3].err # "nil"
  /\ obs # lwp.replicas /\ wp.replicas = lwp.replicas /\ cron.exists

\* the writes of the pass to the resource itself
WpCalls == SelectSeq(log, LAMBDA e : e.kind = "wp")

\* C10: when the store rejects the migration Update or the status Update
\* with a conflict, the pass returns that error and issues no further write;
\* the write is not attempted again in that pass, and the rejected call
\* leaves the stored resource as the concurrent writer committed it.
C10_Conflict ==
  /\ [](\A i \in 1..Len(log) :
          (log[i].kind = "wp" /\ log[i].err = "Conflict") =>
            /\ i = Len(log)
            /\ Len(WpCalls) = 1
            /\ Done
            /\ result = Err("Conflict", IF log[i].op = "update" THEN "update" ELSE "status"))
  /\ [][(Len(log') > Len(log) /\ log'[Len(log')].kind = "wp"
           /\ log'[Len(log')].err = "Conflict") => wp' = wp]_vars

C10_Witness ==
  /\ Done /\ result = Err("Conflict", "status")
  /\ Len(log) = 5 /\ wp.rv # lwp.rv /\ wp.replicas # obs


\* an owner reference that names the resource w as its controller
ControlledBy(ref, w) ==
  /\ ref.kind = "Wordpress"
  /\ ref.name = w.name
  /\ ref.uid = w.uid
  /\ ref.controller

\* C11: cleanupCronJob deletes the legacy cron job only when one of its owner
\* references names the reconciled resource as its controller; with no such
\* reference (a non-controller owner, or the same kind and name with another
\* identity) it deletes nothing.
C11_ControllerOnly ==
  \A i \in 1..Len(log) :
    (log[i].op = "delete" /\ log[i].err = "nil") =>
      \E j \in 1..Len(log[i].refs) : ControlledBy(log[i].refs[j], lwp)

\* C12: the cleanup never fails the pass because the legacy cron job is
\* absent: absent at the fetch, it issues no delete; removed by another actor
\* between the fetch and the delete, so that the store answers the delete
\* with absent, the pass still succeeds.
C12_ReaperIdempotent ==
  Done =>
    /\ result.at = "cronGet" =>
         /\ Calls("delete") = <<>>
         /\ result.err \in {"nil", "Unavailable"}
    /\ (result.at = "cronDelete" /\ Calls("delete")[1].err = "NotFound") =>
         result.err = "nil"

\* a step sends the call op on the resource itself
Issued(op) ==
  /\ Len(log') = Len(log) + 1
  /\ log'[Len(log')].op = op
  /\ log'[Len(log')].kind = "wp"

\* the migration Updates of the pass
MigrationCalls == SelectSeq(WpCalls, LAMBDA e : e.op = "update")

Committed(op) == Issued(op) /\ log'[Len(log')].err = "nil"

\* C14: the controller changes the stored specification only by the
\* migration Update: the defaults set in memory are never persisted, the
\* status update writes the status alone, and a pass without migration
\* leaves the stored specification as it is.
C14_SpecFrame ==
  /\ [](~wp.defaulted)
  /\ [][(envLeft' = envLeft /\ SpecOf(wp') # SpecOf(wp)) =>
          /\ Committed("update")
          /\ needsMigration
          /\ SpecOf(wp') = [SpecOf(lwp) EXCEPT !.routes = RoutesOfDomains(lwp),
                                               !.domains = <<>>]]_vars
  /\ [][Committed("statusUpdate") =>
          /\ SpecOf(wp') = SpecOf(wp)
          /\ wp'.replicas = obs]_vars

C14_Witness ==
  /\ pc = "cronGet"
  /\ Len(Calls("statusUpdate")) = 1 /\ Calls("statusUpdate")[1].err = "nil"
  /\ Calls("statusUpdate")[1].defaulted /\ lwp.defaulted
  /\ ~wp.defaulted /\ wp.replicas = obs /\ wp.replicas # oldStatus

\* the pass has evaluated maybeMigrate
PastMigrate ==
  \/ pc \in {"update", "sync", "status", "cronGet", "cronDelete"}
  \/ Done /\ result.at # "get"

\* C15: on a resource with a non-empty routing list, whatever its deprecated
\* domain list, maybeMigrate reports no change and the pass issues no
\* migration Update; the undisturbed pass after a migration does not migrate
\* again, and a committed migration write always turns an empty routing list
\* into a non-empty one, so it is not repeated on what it wrote.
C15_MigrateOnce ==
  /\ []((PastMigrate /\ Len(lwp.routes) > 0) =>
          /\ ~needsMigration
          /\ pc # "update"
          /\ MigrationCalls = <<>>)
  /\ []((PastMigrate /\ prev.valid /\ prev.migrated /\ ~tainted) =>
          /\ ~needsMigration
          /\ Len(lwp.routes) > 0)
  /\ [][Committed("update") =>
          /\ Len(wp.routes) = 0 /\ Len(wp.domains) > 0
          /\ Len(wp'.routes) > 0 /\ wp'.domains = <<>>]_vars

C15_Witness ==
  /\ pc = "sync" /\ ~needsMigration
  /\ Len(lwp.routes) > 0 /\ Len(lwp.domains) > 0
  /\ wp.domains = lwp.domains

\* the pass has built its pipeline
PipelineBuilt ==
  \/ pc \in {"sync", "status", "cronGet", "cronDelete"}
  \/ Done /\ result.at \notin {"get", "update"}

Member(x, seq) == \E i \in 1..Len(seq) : seq[i] = x

\* C16: the pipeline holds the code claim syncer iff the specification
\* requests a claim for the code volume, the media claim syncer iff it
\* requests one for the media volume, and always the secret, workload,
\* service and ingress syncers; it is fixed before the first syncer runs
\* and does not change during the pass.
C16_PipelineMembership ==
  /\ [](PipelineBuilt =>
          /\ Member("codepvc", syncers) <=> lwp.codePVC
          /\ Member("mediapvc", syncers) <=> lwp.mediaPVC
          /\ \A i \in 1..4 : Member(FixedSyncers[i], syncers))
  /\ [](runs # <<>> => PipelineBuilt)
  /\ [][(PipelineBuilt /\ pc' # "idle") =>
          /\ syncers' = syncers
          /\ lwp'.codePVC = lwp.codePVC /\ lwp'.mediaPVC = lwp.mediaPVC]_vars

C16_Witness ==
  /\ pc = "status" /\ ~lwp.codePVC /\ lwp.mediaPVC
  /\ syncers = FixedSyncers \o <<"mediapvc">>
  /\ KindsOf(runs) = syncers

\* C18: a pass issues at most one write to the resource itself: one
\* migration Update or one status update, never both and never one twice.
C18_OneResourceWrite == Len(WpCalls) <= 1

C18_Witness ==
  /\ Done /\ Len(WpCalls) = 1 /\ WpCalls[1].op = "statusUpdate"
  /\ WpCalls[1].err = "Unavailable" /\ Len(log) > 1

ClaimKinds == {"codepvc", "mediapvc"}

\* C19: the storage-claim syncers run only after the secret, workload,
\* service and ingress syncers have all succeeded, the code claim before
\* the media claim; the workload is written before any claim is, and when
\* one of the four fixed syncers fails the pass writes no claim.
C19_ClaimsLast ==
  /\ \A i \in 1..Len(runs) :
       runs[i].kind \in ClaimKinds =>
         /\ i > 4
         /\ \A j \in 1..4 : runs[j].kind = FixedSyncers[j] /\ runs[j].err = "nil"
  /\ \A i, j \in 1..Len(runs) :
       (runs[i].kind = "codepvc" /\ runs[j].kind = "mediapvc") => i < j
  /\ \A i, j \in 1..Len(log) :
       (log[i].kind = "deploy" /\ log[j].kind \in ClaimKinds) => i < j
  /\ (\E k \in 1..Len(runs) : k <= 4 /\ runs[k].err # "nil") =>
       \A i \in 1..Len(log) : log[i].kind \notin ClaimKinds

C19_Witness ==
  /\ Done /\ lwp.codePVC /\ lwp.mediaPVC
  /\ KindsOf(Calls("create")) = FixedSyncers \o <<"codepvc", "mediapvc">>
  /\ children["mediapvc"].exists


\* a step changes the resource or one of its children
StoreChange ==
  \/ wp' # wp
  \/ deployReplicas' # deployReplicas
  \/ \E k \in Kinds : children'[k] # children[k]

\* every child of the resource's pipeline is in the shape its builder computes
ChildrenDesired ==
  /\ ~maybeMigrate(wp).changed
  /\ \A i \in 1..Len(Pipeline(wp)) :
       children[Pipeline(wp)[i]] = Desired(Pipeline(wp)[i], wp)

FixedPoint ==
  wp.exists =>
    /\ ChildrenDesired
    /\ ~(cron.exists /\ \E j \in 1..Len(cron.refs) : ControlledBy(cron.refs[j], wp))
    /\ wp.replicas = deployReplicas

\* a pass with locals l is not working on a stale read of the resource or of
\* the cron job
Fresh(l) ==
  \/ l.pc \in {"idle", "done"}
  \/ l.lwp.rv = wp.rv /\ l.pc # "cronDelete"

\* the fixed point is reached and neither pass has written or read stale state
Settled ==
  /\ wp.exists /\ FixedPoint
  /\ log = <<>> /\ other.log = <<>>
  /\ Fresh(PassLocals) /\ Fresh(other)

====
